---- MODULE Spec2Model ----
(***************************************************************************)
(* Model of lib/PlanReviewer.js (terraform-plan-reviewer).                 *)
(*                                                                         *)
(* JSON values are tagged records [t, v]: t is the JavaScript kind of the  *)
(* value and v its payload.  A keyed map is a function from key strings to *)
(* values, an ordered sequence is a sequence of values.                    *)
(***************************************************************************)
EXTENDS Integers, Sequences, FiniteSets, TLC

VARIABLES pc, json, idx, changeCount, changeInfo, diffs, todo, out, invoked, call, ret

vars == <<pc, json, idx, changeCount, changeInfo, diffs, todo, out, invoked, call, ret>>

-----------------------------------------------------------------------------
(* JSON / JavaScript values                                                *)

Null == [t |-> "null", v |-> 0]

Undefined == [t |-> "undefined", v |-> 0]

\* a string is a sequence of pieces of text (single characters where the
\* text is searched or parsed); Str(s) is the string of the one piece s
StrOf(chars) == [t |-> "string", v |-> chars]

Str(s) == StrOf(<<s>>)

Bool(b) == [t |-> "boolean", v |-> b]

Obj(f) == [t |-> "object", v |-> f]

Arr(s) == [t |-> "array", v |-> s]

EmptyObj == Obj(<<>>)

\* a key that a document does not hold (used only to build documents)
Absent == [t |-> "absent", v |-> 0]

\* the keyed map holding the keys of the record f whose value is not Absent
MkObj(f) == Obj([k \in {k \in DOMAIN f : f[k].t # "absent"} |-> f[k]])

\* typeof x
TypeOf(x) ==
    CASE x.t = "string" -> "string"
      [] x.t = "boolean" -> "boolean"
      [] x.t = "number" -> "number"
      [] x.t = "undefined" -> "undefined"
      [] OTHER -> "object"

IsArray(x) == x.t = "array"

\* x[key] for a keyed map x: undefined when the key is missing
Get(x, key) == IF key \in DOMAIN x.v THEN x.v[key] ELSE Undefined

\* x[j] (0-based j) for a sequence x: undefined past the end
At(x, j) == IF j + 1 \in DOMAIN x.v THEN x.v[j + 1] ELSE Undefined

Max(a, b) == IF a >= b THEN a ELSE b

-----------------------------------------------------------------------------
(* Constants of the constructor                                            *)

KNOWN_AFTER_APPLY == Str("(known after apply)")

CHANGES ==
    [READ |-> "read", CREATE |-> "create", UPDATE |-> "update",
     DELETE |-> "delete", UNKNOWN |-> "unknown"]

CHANGE_MARKERS ==
    [READ |-> "<=", CREATE |-> "+", DELETE |-> "-", UPDATE |-> "~", UNKNOWN |-> "?"]

-----------------------------------------------------------------------------
(* isObject, isEmptyObject                                                 *)

isObject(x) == TypeOf(x) = "object" /\ ~IsArray(x)

\* Object.keys(null) raises; every caller tests for null first
isEmptyObject(x) == isObject(x) /\ x # Null /\ DOMAIN x.v = {}

-----------------------------------------------------------------------------
(* The deepmerge package (default options), as called through DEEPMERGE    *)

isMergeableObject(x) == x.t \in {"object", "array"}

RECURSIVE DEEPMERGE(_, _)

\* mergeObject: the target's keys, then the source's keys, merged where the
\* key is on the target and the source's value is mergeable
mergeObject(target, source) ==
    LET tk == IF target.t = "object" THEN DOMAIN target.v ELSE {}
        sk == DOMAIN source.v
    IN Obj([k \in tk \cup sk |->
              IF k \notin sk THEN target.v[k]
              ELSE IF k \in tk /\ isMergeableObject(source.v[k])
                   THEN DEEPMERGE(target.v[k], source.v[k])
                   ELSE source.v[k]])

DEEPMERGE(target, source) ==
    IF IsArray(source) # IsArray(target) THEN source
    ELSE IF IsArray(source) THEN Arr(target.v \o source.v)
    ELSE mergeObject(target, source)

-----------------------------------------------------------------------------
(* getAttributeDiffs                                                       *)

\* lines 498-501: a template_file data source loses id and rendered
dropDerived(afterState, resource) ==
    IF resource.mode = "data" /\ resource.type = "template_file"
    THEN Obj([k \in DOMAIN afterState.v \ {"id", "rendered"} |-> afterState.v[k]])
    ELSE afterState

keysOf(state) == IF state \in {Null, Undefined} THEN {} ELSE DOMAIN state.v

\* the union without the keys the marker map alone holds
allKeys_WithoutMarkerKeys(newState, oldState, afterState) ==
    keysOf(oldState) \cup keysOf(newState)

\* lines 503-522: the keys of the three maps, without duplicates
allKeys(newState, oldState, afterState) ==
    keysOf(oldState) \cup keysOf(newState) \cup DOMAIN afterState.v

\* lines 527-536: oldState == null also covers undefined
oldValueOf(oldState, key) ==
    IF \/ oldState \in {Null, Undefined}
       \/ Get(oldState, key) = Undefined
       \/ Get(oldState, key) = Null
       \/ isEmptyObject(Get(oldState, key))
    THEN Null
    ELSE Get(oldState, key)

\* lines 538-547: newState === null does not cover undefined
newValueThrows(newState) == newState = Undefined

newValueOf(newState, key) ==
    IF \/ newState = Null
       \/ Get(newState, key) = Undefined
       \/ Get(newState, key) = Null
       \/ isEmptyObject(Get(newState, key))
    THEN Null
    ELSE Get(newState, key)

\* the element-wise merge without the exception for a marker element false
combinedItem_FalseReplaces(newValue, after, j) ==
    LET newItem == IF At(newValue, j) = Undefined THEN EmptyObj ELSE At(newValue, j)
        afterItem == IF At(after, j) = Undefined THEN EmptyObj ELSE At(after, j)
    IN IF TypeOf(afterItem) \in {"string", "number", "boolean"}
       THEN afterItem
       ELSE DEEPMERGE(newItem, afterItem)

\* lines 576-594: one index of the element-wise merge
combinedItem(newValue, after, j) ==
    LET newItem == IF At(newValue, j) = Undefined THEN EmptyObj ELSE At(newValue, j)
        afterItem == IF At(after, j) = Undefined THEN EmptyObj ELSE At(after, j)
    IN IF TypeOf(afterItem) \in {"string", "number", "boolean"}
       THEN IF afterItem = Bool(FALSE) /\ newItem # Null THEN newItem ELSE afterItem
       ELSE DEEPMERGE(newItem, afterItem)

\* lines 574-597
combinedItems(newValue, after) ==
    Arr([n \in 1..Max(Len(after.v), Len(newValue.v)) |->
           combinedItem(newValue, after, n - 1)])

\* the merge with marker true taking over only a null newValue
mergeAfter_TrueKeepsKnownValue(newValue, after) ==
    IF after # Undefined /\ after # Null /\ ~isEmptyObject(after)
    THEN IF after = Bool(TRUE) /\ newValue = Null
         THEN [newValue |-> KNOWN_AFTER_APPLY, unexpected |-> FALSE]
         ELSE IF after \in {Bool(TRUE), Bool(FALSE)}
         THEN [newValue |-> newValue, unexpected |-> FALSE]
         ELSE IF newValue = Null
         THEN [newValue |-> after, unexpected |-> FALSE]
         ELSE IF IsArray(after) /\ IsArray(newValue)
         THEN [newValue |-> combinedItems(newValue, after), unexpected |-> FALSE]
         ELSE IF isObject(after) /\ isObject(newValue)
         THEN [newValue |-> DEEPMERGE(newValue, after), unexpected |-> FALSE]
         ELSE [newValue |-> newValue, unexpected |-> TRUE]
    ELSE [newValue |-> newValue, unexpected |-> FALSE]

\* lines 552-607: the marker `after` of one key folded into newValue;
\* unexpected is the diagnostic of line 605
mergeAfter(newValue, after) ==
    IF after # Undefined /\ after # Null /\ ~isEmptyObject(after)
    THEN IF after = Bool(TRUE)
         THEN [newValue |-> KNOWN_AFTER_APPLY, unexpected |-> FALSE]
         ELSE IF after = Bool(FALSE)
         THEN [newValue |-> newValue, unexpected |-> FALSE]
         ELSE IF newValue = Null
         THEN [newValue |-> after, unexpected |-> FALSE]
         ELSE IF IsArray(after) /\ IsArray(newValue)
         THEN [newValue |-> combinedItems(newValue, after), unexpected |-> FALSE]
         ELSE IF isObject(after) /\ isObject(newValue)
         THEN [newValue |-> DEEPMERGE(newValue, after), unexpected |-> FALSE]
         ELSE [newValue |-> newValue, unexpected |-> TRUE]
    ELSE [newValue |-> newValue, unexpected |-> FALSE]

\* lines 523-608: the record of one key
diffOf(newState, oldState, afterState, key) ==
    [oldValue |-> oldValueOf(oldState, key),
     newValue |-> mergeAfter(newValueOf(newState, key), Get(afterState, key)).newValue]

\* lines 460-611.  threw: the TypeError of line 539 when newState is
\* undefined and there is a key to look at; afterState: the marker map as
\* the call leaves it
getAttributeDiffs(newState, oldState, afterState, resource) ==
    LET after == dropDerived(afterState, resource)
        keys == allKeys(newState, oldState, after)
    IN IF keys # {} /\ newValueThrows(newState)
       THEN [threw |-> TRUE, diffs |-> <<>>, unexpected |-> {}, afterState |-> after]
       ELSE [threw |-> FALSE,
             diffs |-> [k \in keys |-> diffOf(newState, oldState, after, k)],
             unexpected |-> {k \in keys :
                 mergeAfter(newValueOf(newState, k), Get(after, k)).unexpected},
             afterState |-> after]

-----------------------------------------------------------------------------
(* getResourceChangeInfo                                                   *)

COLOR == [RED |-> "red", GREEN |-> "green", YELLOW |-> "yellow", BLUE |-> "blue"]

Kinds == {"read", "create", "update", "delete", "unknown"}

\* the switch without its default: an action of no known kind has no case
caseOf_NoDefault(action) ==
    CASE action = CHANGES.READ -> "READ"
      [] action = CHANGES.CREATE -> "CREATE"
      [] action = CHANGES.UPDATE -> "UPDATE"
      [] action = CHANGES.DELETE -> "DELETE"
      [] OTHER -> "READ"

\* lines 419-444: the case of the switch an action falls in
caseOf(action) ==
    CASE action = CHANGES.READ -> "READ"
      [] action = CHANGES.CREATE -> "CREATE"
      [] action = CHANGES.UPDATE -> "UPDATE"
      [] action = CHANGES.DELETE -> "DELETE"
      [] OTHER -> "UNKNOWN"

\* lines 422, 427, 432, 437, 442: the colour of each case's symbol
colorOf(case) ==
    CASE case = "READ" -> COLOR.BLUE
      [] case = "CREATE" -> COLOR.GREEN
      [] case = "UPDATE" -> COLOR.YELLOW
      [] OTHER -> COLOR.RED

symbolOf(case) == [color |-> colorOf(case), marker |-> CHANGE_MARKERS[case]]

RECURSIVE countFrom(_, _, _)

\* lines 417-445: the tally after the actions from index i on
countFrom(actions, i, count) ==
    IF i > Len(actions) THEN count
    ELSE countFrom(actions, i + 1,
                   [count EXCEPT ![CHANGES[caseOf(actions[i])]] = @ + 1])

ChangeInfo(symbols, changes) ==
    [t |-> "object", v |-> [symbols |-> symbols, changes |-> changes]]

\* lines 408-447: info is the value returned, count the tally as left
getResourceChangeInfo(actions, count) ==
    IF Len(actions) = 1 /\ actions[1] = "no-op"
    THEN [info |-> Null, changeCount |-> count]
    ELSE [info |-> ChangeInfo([n \in 1..Len(actions) |-> symbolOf(caseOf(actions[n]))],
                              [n \in 1..Len(actions) |-> CHANGES[caseOf(actions[n])]]),
          changeCount |-> countFrom(actions, 1, count)]

-----------------------------------------------------------------------------
(* Address lookup: getMatchingAddress, getConfigResourceWrapper,           *)
(* getPlannedValuesModuleResource                                          *)

\* an address string, held as the tokens that split(".") gives
Addr(tokens) == StrOf(tokens)

\* a keyed map whose key order matters to the code (Object.keys)
OrderedObj(keys, f) == [t |-> "object", v |-> f, keys |-> keys]

\* what a method call gives: a value returned, or an error thrown
Returned(x) == [threw |-> FALSE, value |-> x]

Thrown == [threw |-> TRUE, value |-> Undefined]

\* the index of the first item of items at or after n whose address is
\* address, 0 when there is none
RECURSIVE firstMatch(_, _, _)

firstMatch(address, items, n) ==
    IF n > Len(items) THEN 0
    ELSE IF Get(items[n], "address") = address THEN n
    ELSE firstMatch(address, items, n + 1)

\* lines 358-366
getMatchingAddress(address, items) ==
    IF ~IsArray(items) THEN Thrown
    ELSE IF firstMatch(address, items.v, 1) = 0 THEN Returned(Null)
    ELSE Returned(items.v[firstMatch(address, items.v, 1)])

Wrapper(resource, moduleName) ==
    [t |-> "object", v |-> [resource |-> resource, moduleName |-> moduleName]]

\* lines 377-399.  The test of line 392 is for undefined, which
\* getMatchingAddress never returns: a declaration that is not found comes
\* back as a wrapper around null.  A module call that is not declared makes
\* line 388 raise a TypeError.
getConfigResourceWrapper(fullAddress, fullJson) ==
    LET addressTokens == fullAddress.v
        tokenCount == Len(addressTokens)
        root == Get(Get(fullJson, "configuration"), "root_module")
    IN IF tokenCount <= 2
       THEN LET found == getMatchingAddress(fullAddress, Get(root, "resources"))
            IN IF found.threw THEN Thrown
               ELSE Returned(Wrapper(found.value, Str("root_module")))
       ELSE LET calls == Get(root, "module_calls")
                name == addressTokens[tokenCount - 2]
            IN IF calls.t # "object" \/ Get(calls, name).t # "object" THEN Thrown
               ELSE LET found ==
                          getMatchingAddress(
                              Addr(<<addressTokens[tokenCount - 1],
                                     addressTokens[tokenCount]>>),
                              Get(Get(Get(calls, name), "module"), "resources"))
                    IN IF found.threw THEN Thrown
                       ELSE Returned(Wrapper(found.value, Str(name)))

\* lines 307-317: what the loop over the child modules returns, Null when
\* it ends or breaks without a resource
RECURSIVE childModuleResource(_, _, _, _)

childModuleResource(relativeAddress, moduleName, children, n) ==
    IF n > Len(children) THEN Returned(Null)
    ELSE IF Get(children[n], "address") = Addr(<<"module", moduleName>>)
    THEN getMatchingAddress(Addr(<<"module", moduleName>> \o relativeAddress.v),
                            Get(children[n], "resources"))
    ELSE childModuleResource(relativeAddress, moduleName, children, n + 1)

\* lines 294-321.  Line 319 reads fullAddress, a name that is not defined
\* in the method: reaching it raises a ReferenceError.
getPlannedValuesModuleResource(relativeAddress, moduleName, fullJson) ==
    LET root == Get(Get(fullJson, "planned_values"), "root_module")
    IN IF moduleName = Str("root_module")
       THEN getMatchingAddress(relativeAddress, Get(root, "resources"))
       ELSE LET children == Get(root, "child_modules")
                inChild == IF IsArray(children)
                           THEN childModuleResource(relativeAddress, moduleName.v[1],
                                                    children.v, 1)
                           ELSE Returned(Null)
            IN IF inChild.threw THEN Thrown
               ELSE IF inChild.value # Null THEN inChild
               ELSE Thrown

-----------------------------------------------------------------------------
(* getPredictedNewValue                                                    *)

\* the text of a placeholder: "${" name "}"
placeholder(varKey) == <<"$", "{", varKey, "}">>

\* String.prototype.replace reads "$$" in the replacement as one "$"
RECURSIVE substitution(_)

substitution(value) ==
    IF Len(value) = 0 THEN <<>>
    ELSE IF Len(value) >= 2 /\ value[1] = "$" /\ value[2] = "$"
    THEN <<"$">> \o substitution(SubSeq(value, 3, Len(value)))
    ELSE <<value[1]>> \o substitution(Tail(value))

\* template.replace(regex, value) with the flags "gm": every match of the
\* pattern, left to right, matches not overlapping
RECURSIVE replaceAll(_, _, _)

replaceAll(text, pattern, value) ==
    IF Len(text) < Len(pattern) THEN text
    ELSE IF SubSeq(text, 1, Len(pattern)) = pattern
    THEN substitution(value)
           \o replaceAll(SubSeq(text, Len(pattern) + 1, Len(text)), pattern, value)
    ELSE <<text[1]>> \o replaceAll(Tail(text), pattern, value)

\* lines 275-280: the variables spliced in one after the other, from the
\* n-th key on
RECURSIVE spliceFrom(_, _, _)

spliceFrom(template, templateVars, n) ==
    IF n > Len(templateVars.keys) THEN template
    ELSE spliceFrom(replaceAll(template, placeholder(templateVars.keys[n]),
                               templateVars.v[templateVars.keys[n]].v),
                    templateVars, n + 1)

\* lines 275-281
render(template, templateVars) == StrOf(spliceFrom(template.v, templateVars, 1))

EligibleTypes == {"aws_iam_role_policy", "aws_sfn_state_machine"}

\* lines 246-255
dynamicAttributeOf(type) ==
    IF type = "aws_iam_role_policy" THEN "policy" ELSE "definition"

\* line 261: the reference starts with "data.template_file." or holds
\* ".data.template_file."
isTemplateReference(reference) ==
    LET r == reference.v
    IN \E n \in 1..Len(r) :
          /\ n + 2 <= Len(r)
          /\ r[n] = "data"
          /\ r[n + 1] = "template_file"

\* the test without the count of the references: the first one decides
notOneTemplateReference_FirstReferenceOnly(configResource, dynamicAttribute) ==
    LET expressions == Get(configResource, "expressions")
        expression == Get(expressions, dynamicAttribute)
        references == Get(expression, "references")
    IN \/ TypeOf(expressions) # "object"
       \/ TypeOf(expression) # "object"
       \/ ~IsArray(references)
       \/ Len(references.v) = 0
       \/ ~isTemplateReference(references.v[1])

\* lines 257-261: no prediction from this declaration
notOneTemplateReference(configResource, dynamicAttribute) ==
    LET expressions == Get(configResource, "expressions")
        expression == Get(expressions, dynamicAttribute)
        references == Get(expression, "references")
    IN \/ TypeOf(expressions) # "object"
       \/ TypeOf(expression) # "object"
       \/ ~IsArray(references)
       \/ Len(references.v) # 1
       \/ ~isTemplateReference(references.v[1])

\* lines 263-281, once the declaration names one template
predictFromTemplate(configResource, dynamicAttribute, moduleName, fullJson) ==
    LET templateAddress ==
            Get(Get(Get(configResource, "expressions"), dynamicAttribute),
                "references").v[1]
        found == getPlannedValuesModuleResource(templateAddress, moduleName, fullJson)
    IN IF found.threw \/ found.value = Null THEN Thrown
       ELSE LET template == Get(Get(found.value, "values"), "template")
                templateVars == Get(Get(found.value, "values"), "vars")
            IN IF TypeOf(template) # "string" \/ TypeOf(templateVars) # "object"
               THEN Returned(Null)
               ELSE IF templateVars = Null THEN Thrown
               ELSE Returned(render(template, templateVars))

\* lines 227-283.  A declaration that was not found is null, and reading
\* its expressions raises a TypeError.
getPredictedNewValue(diff, resource, fullJson) ==
    IF diff.newValue # KNOWN_AFTER_APPLY \/ resource.type \notin EligibleTypes
    THEN Returned(Null)
    ELSE LET wrapper == getConfigResourceWrapper(resource.address, fullJson)
         IN IF wrapper.threw THEN Thrown
            ELSE IF wrapper.value.v.resource = Null THEN Thrown
            ELSE IF notOneTemplateReference(wrapper.value.v.resource,
                                            dynamicAttributeOf(resource.type))
            THEN Returned(Null)
            ELSE predictFromTemplate(wrapper.value.v.resource,
                                     dynamicAttributeOf(resource.type),
                                     wrapper.value.v.moduleName, fullJson)

-----------------------------------------------------------------------------
(* process: the pieces of one pass over resource_changes                   *)

\* JSON.parse of a text of braces, brackets and blanks: blanks between
\* tokens are skipped; "{}" is the empty map, "[]" the empty sequence,
\* "[" value "]" a sequence of one value; any other text is a SyntaxError
stripBlanks(text) == SelectSeq(text, LAMBDA c : c # " ")

RECURSIVE parseValue(_)

parseValue(tokens) ==
    IF tokens = <<"{", "}">> THEN Returned(EmptyObj)
    ELSE IF tokens = <<"[", "]">> THEN Returned(Arr(<<>>))
    ELSE IF Len(tokens) >= 3 /\ tokens[1] = "[" /\ tokens[Len(tokens)] = "]"
    THEN LET inner == parseValue(SubSeq(tokens, 2, Len(tokens) - 1))
         IN IF inner.threw THEN Thrown ELSE Returned(Arr(<<inner.value>>))
    ELSE Thrown

\* a map or a sequence handed to JSON.parse is first turned into text that
\* is no JSON
JSONparse(x) == IF x.t = "string" THEN parseValue(stripBlanks(x.v)) ELSE Thrown

\* deep-eql on values
DEEPEQUAL(a, b) == a = b

\* lines 135-145: "same" when the test of line 136 holds, "error" when a
\* JSON.parse raises, "differs" otherwise
comparePredicted(diff, predictedNewValue) ==
    IF diff.newValue = predictedNewValue THEN "same"
    ELSE IF JSONparse(diff.oldValue).threw \/ JSONparse(predictedNewValue).threw
    THEN "error"
    ELSE IF DEEPEQUAL(JSONparse(diff.oldValue).value, JSONparse(predictedNewValue).value)
    THEN "same"
    ELSE "differs"

\* the test that lets a resource that is only read through to its details
skipsDetails_DeleteOnly(changes) == Len(changes) = 1 /\ changes[1] = CHANGES.DELETE

\* lines 80, 89: the only change is a delete, or is a read
skipsDetails(changes) ==
    \/ Len(changes) = 1 /\ changes[1] = CHANGES.DELETE
    \/ Len(changes) = 1 /\ changes[1] = CHANGES.READ

\* lines 331-335
shouldSkipDiffKnownAfter(resource, diff, attribute) ==
    IF diff.newValue # KNOWN_AFTER_APPLY THEN FALSE
    ELSE resource.type = "aws_lambda_function"
           /\ attribute \in {"last_modified", "qualified_arn"}

\* lines 345-349
shouldSkipAlways(resource, attribute) ==
    resource.type = "aws_lambda_function" /\ attribute \in {"source_code_hash"}

\* lines 112-120: the marker that opens an attribute's line
lineMarker(diff) ==
    IF diff.oldValue # Null /\ diff.newValue = Null THEN CHANGE_MARKERS.DELETE
    ELSE IF diff.oldValue = Null /\ diff.newValue # Null THEN CHANGE_MARKERS.CREATE
    ELSE CHANGE_MARKERS.UPDATE

\* the order in which a document lists the keys of an attribute map
KeyOrder ==
    <<"definition", "environment", "id", "last_modified", "name", "policy",
      "rendered", "source_code_hash", "template">>

inOrder(keys) == SelectSeq(KeyOrder, LAMBDA k : k \in keys)

\* lines 503-522, 98: Object.keys(diffs), the old map's keys first, then
\* the new map's, then the marker map's
diffKeys(newState, oldState, afterState) ==
    inOrder(keysOf(oldState))
      \o inOrder(keysOf(newState) \ keysOf(oldState))
      \o inOrder(DOMAIN afterState.v \ (keysOf(oldState) \cup keysOf(newState)))

\* the lines written with console.log
HeaderLine(n, symbols, resource) ==
    [line |-> "header", of |-> n, symbols |-> symbols,
     mode |-> IF resource.mode # "managed" THEN resource.mode ELSE "",
     type |-> resource.type, name |-> resource.name]

CloseLine(n) == [line |-> "close", of |-> n]

NoChangeLine(n, marker, attribute) ==
    [line |-> "predicting-no-change", of |-> n, marker |-> marker,
     attribute |-> attribute]

CompareErrorLine(n) == [line |-> "compare-error", of |-> n]

UnexpectedConditionLine(n, attribute) ==
    [line |-> "unexpected-condition", of |-> n, attribute |-> attribute]

ValuesLine(n, marker, attribute, diff) ==
    [line |-> "values", of |-> n, marker |-> marker, attribute |-> attribute,
     oldValue |-> diff.oldValue, newValue |-> diff.newValue]

SummaryLine(count) ==
    [line |-> "summary", add |-> count["create"], change |-> count["update"],
     destroy |-> count["delete"]]

\* lines 211-214: the error and its stack
ErrorLines == <<[line |-> "unexpected-error"], [line |-> "error-stack"]>>

NoChangesLine == [line |-> "no-changes"]

BlankLine == [line |-> "blank"]

-----------------------------------------------------------------------------
(* Bounds and input documents                                              *)

\* longest ordered sequence held by an attribute or a marker
MaxSeqLen == 2

SeqsUpTo(S, n) == UNION {[1..m -> S] : m \in 0..n}

\* elements of an attribute's sequence value
NewItems ==
    {Null, Str("a"), EmptyObj, Obj([x |-> Str("a")]),
     Obj([x |-> Str("a"), y |-> Str("b")])}

\* elements of a marker's sequence value (after_unknown holds no null)
AfterItems ==
    {Bool(TRUE), Bool(FALSE), Str("u"), EmptyObj, Obj([x |-> Bool(TRUE)])}

NewValues ==
    {Null, Str("a"), Bool(FALSE), EmptyObj, Obj([x |-> Str("a")]),
     Obj([x |-> Obj([z |-> Str("a")]), y |-> Str("b")])}
    \cup {Arr(s) : s \in SeqsUpTo(NewItems, MaxSeqLen)}

AfterValues ==
    {Null, Bool(TRUE), Bool(FALSE), EmptyObj, Obj([x |-> Bool(TRUE)]),
     Obj([x |-> Obj([w |-> Bool(TRUE)])])}
    \cup {Arr(s) : s \in SeqsUpTo(AfterItems, MaxSeqLen)}

OldValues == {Null, Str("a"), EmptyObj, Arr(<<Str("a")>>)}

ManagedResource == [mode |-> "managed", type |-> "aws_lambda_function"]

TemplateResource == [mode |-> "data", type |-> "template_file"]

\* calls of getAttributeDiffs: one attribute with every shape of value and
\* marker, and two or three attributes with every pattern of presence
DiffCalls ==
    {[op |-> "getAttributeDiffs",
      newState |-> MkObj([environment |-> n]),
      oldState |-> MkObj([environment |-> o]),
      afterState |-> MkObj([environment |-> a]),
      resource |-> ManagedResource] :
        n \in NewValues \cup {Absent}, o \in OldValues \cup {Absent},
        a \in AfterValues \cup {Absent}}
    \cup
    {[op |-> "getAttributeDiffs",
      newState |-> IF nw = "map" THEN MkObj([environment |-> n, id |-> ni])
                   ELSE IF nw = "null" THEN Null ELSE Undefined,
      oldState |-> IF ow = "map" THEN MkObj([environment |-> Absent, id |-> oi])
                   ELSE IF ow = "null" THEN Null ELSE Undefined,
      afterState |-> MkObj([environment |-> a, id |-> ai, rendered |-> ar]),
      resource |-> r] :
        nw \in {"map", "null", "undefined"}, ow \in {"map", "null", "undefined"},
        n \in {Absent, Arr(<<Str("a")>>)}, a \in {Absent, Bool(TRUE), Bool(FALSE)},
        ni \in {Absent, Str("a")}, oi \in {Absent, Str("a")},
        ai \in {Absent, Bool(TRUE), Bool(FALSE)}, ar \in {Absent, Bool(TRUE)},
        r \in {ManagedResource, TemplateResource}}

NoCall == [op |-> "none"]

NoRet == [op |-> "none"]

\* the variables of a run of process(), at rest while one method is called
Idle ==
    /\ json = Null
    /\ idx = 0
    /\ changeCount = <<>>
    /\ changeInfo = Null
    /\ diffs = <<>>
    /\ todo = <<>>
    /\ out = <<>>
    /\ invoked = {}

IdleUnchanged ==
    UNCHANGED <<json, idx, changeCount, changeInfo, diffs, todo, out, invoked>>

InitDiff ==
    /\ pc = "call"
    /\ call \in DiffCalls
    /\ ret = NoRet
    /\ Idle

CallGetAttributeDiffs ==
    /\ pc = "call"
    /\ call.op = "getAttributeDiffs"
    /\ ret' = getAttributeDiffs(call.newState, call.oldState, call.afterState,
                                call.resource)
    /\ pc' = "returned"
    /\ UNCHANGED call
    /\ IdleUnchanged

NextDiff == CallGetAttributeDiffs

SpecDiff == InitDiff /\ [][NextDiff]_vars

\* longest action list of a resource change
MaxActions == 2

\* largest count the tally holds when a resource is classified
MaxTally == 1

\* "no-op" and the four kinds, and two actions of no known kind
Actions == {"no-op", "read", "create", "update", "delete", "replace", "forget"}

ClassifyCalls ==
    {[op |-> "getResourceChangeInfo", actions |-> a, changeCount |-> c] :
        a \in SeqsUpTo(Actions, MaxActions), c \in [Kinds -> 0..MaxTally]}

InitClassify ==
    /\ pc = "call"
    /\ call \in ClassifyCalls
    /\ ret = NoRet
    /\ Idle

CallGetResourceChangeInfo ==
    /\ pc = "call"
    /\ call.op = "getResourceChangeInfo"
    /\ ret' = getResourceChangeInfo(call.actions, call.changeCount)
    /\ pc' = "returned"
    /\ UNCHANGED call
    /\ IdleUnchanged

NextClassify == CallGetResourceChangeInfo

SpecClassify == InitClassify /\ [][NextClassify]_vars

\* most pieces a template body is put together from
MaxPieces == 2

RECURSIVE Concat(_)

Concat(pieces) == IF Len(pieces) = 0 THEN <<>> ELSE Head(pieces) \o Concat(Tail(pieces))

\* placeholders of the variables a and b, and text around them
TemplatePieces ==
    {placeholder("a"), placeholder("b"), <<"x">>, <<"$">>, <<"{">>, <<"a">>, <<"}">>}

TemplateBodies == {Concat(ps) : ps \in SeqsUpTo(TemplatePieces, MaxPieces)}

\* values of template variables: plain text, the empty string, text that
\* reads as a placeholder, and "$$"
VarValues == {<<"x">>, <<>>, placeholder("a"), placeholder("b"), <<"$", "$">>}

\* the variable maps over a and b, in either key order
VarMaps ==
    {OrderedObj(keys, [k \in {keys[n] : n \in DOMAIN keys} |-> StrOf(val[k])]) :
        keys \in {<<>>, <<"a">>, <<"b">>, <<"a", "b">>, <<"b", "a">>},
        val \in [{"a", "b"} -> VarValues]}

RenderCalls ==
    {[op |-> "render", template |-> StrOf(body), templateVars |-> tv] :
        body \in TemplateBodies, tv \in VarMaps}

InitRender ==
    /\ pc = "call"
    /\ call \in RenderCalls
    /\ ret = NoRet
    /\ Idle

\* lines 275-281 of getPredictedNewValue
CallRender ==
    /\ pc = "call"
    /\ call.op = "render"
    /\ ret' = render(call.template, call.templateVars)
    /\ pc' = "returned"
    /\ UNCHANGED call
    /\ IdleUnchanged

NextRender == CallRender

SpecRender == InitRender /\ [][NextRender]_vars

\* plan documents for the predictor

TemplateAddress == Addr(<<"data", "template_file", "t">>)

RoleAddress == Addr(<<"aws_iam_role", "r">>)

\* reference lists of a declared expression: none, one template, one other
\* resource, a template and another resource either way round, two templates
ReferenceLists ==
    {<<>>, <<TemplateAddress>>, <<RoleAddress>>, <<TemplateAddress, RoleAddress>>,
     <<RoleAddress, TemplateAddress>>,
     <<TemplateAddress, Addr(<<"data", "template_file", "u">>)>>}

\* shapes of a declaration's expressions: no expressions at all, none for
\* the attribute, a constant, or references
Expressions(attribute) ==
    {Absent, EmptyObj,
     Obj([a \in {attribute} |-> Obj([constant_value |-> Str("x")])])}
    \cup {Obj([a \in {attribute} |-> Obj([references |-> Arr(refs)])]) :
            refs \in ReferenceLists}

Declaration(tokens, expressions) ==
    MkObj([address |-> Addr(tokens), expressions |-> expressions])

OtherDeclaration == Declaration(<<"aws_iam_role", "r">>, EmptyObj)

\* the configuration tree: declared says whether the declaration is held
\* ("yes"), is not held ("no"), or the collection that would hold it is not
\* there ("nocollection")
Configuration(inModule, declared, declaration) ==
    LET resources == IF declared = "yes" THEN Arr(<<OtherDeclaration, declaration>>)
                     ELSE Arr(<<OtherDeclaration>>)
    IN IF inModule
       THEN Obj([root_module |->
                  MkObj([resources |-> Arr(<<OtherDeclaration>>),
                         module_calls |->
                           IF declared = "nocollection" THEN EmptyObj
                           ELSE Obj([m |-> Obj([module |->
                                       Obj([resources |-> resources])])])])])
       ELSE Obj([root_module |->
                  MkObj([resources |-> IF declared = "nocollection" THEN Absent
                                       ELSE resources])])

\* values of the template_file resource: body and variables, no variables,
\* null variables, a body that is no string
TemplateValues ==
    {MkObj([template |-> StrOf(placeholder("a")),
            vars |-> OrderedObj(<<"a">>, [a |-> StrOf(<<"{", "}">>)])]),
     MkObj([template |-> StrOf(<<"x">>), vars |-> Absent]),
     MkObj([template |-> StrOf(<<"x">>), vars |-> Null]),
     MkObj([template |-> Null, vars |-> OrderedObj(<<>>, <<>>)])}

Planned(tokens, values) == Obj([address |-> Addr(tokens), values |-> values])

OtherPlanned == Planned(<<"aws_iam_role", "r">>, EmptyObj)

\* the planned-value tree: the template_file resource is held by the root
\* module ("root"), by the child module m ("child"), or by neither
PlannedValues(where, values) ==
    Obj([root_module |->
          Obj([resources |->
                 IF where = "root"
                 THEN Arr(<<OtherPlanned, Planned(<<"data", "template_file", "t">>, values)>>)
                 ELSE Arr(<<OtherPlanned>>),
               child_modules |->
                 Arr(<<Obj([address |-> Addr(<<"module", "n">>),
                            resources |-> Arr(<<>>)]),
                       Obj([address |-> Addr(<<"module", "m">>),
                            resources |->
                              IF where = "child"
                              THEN Arr(<<Planned(<<"module", "m", "data",
                                                   "template_file", "t">>, values)>>)
                              ELSE Arr(<<>>)])>>)])])

FullJson(configuration, planned) ==
    Obj([configuration |-> configuration, planned_values |-> planned])

ResourceTypes == {"aws_iam_role_policy", "aws_sfn_state_machine", "aws_lambda_function"}

ResourceAt(type, inModule) ==
    [mode |-> "managed", type |-> type, name |-> "p",
     address |-> Addr(IF inModule THEN <<"module", "m", type, "p">> ELSE <<type, "p">>)]

PredictCalls ==
    {[op |-> "getPredictedNewValue",
      diff |-> [oldValue |-> Str("x"), newValue |-> nv],
      resource |-> ResourceAt(type, inModule),
      fullJson |->
        FullJson(Configuration(inModule, declared,
                               Declaration(<<type, "p">>, expressions)),
                 PlannedValues(where, values))] :
        nv \in {KNOWN_AFTER_APPLY, Str("x"), Null},
        type \in ResourceTypes, inModule \in BOOLEAN,
        declared \in {"yes", "no", "nocollection"},
        expressions \in Expressions("policy") \cup Expressions("definition"),
        where \in {"root", "child", "none"}, values \in TemplateValues}

InitPredict ==
    /\ pc = "call"
    /\ call \in PredictCalls
    /\ ret = NoRet
    /\ Idle

CallGetPredictedNewValue ==
    /\ pc = "call"
    /\ call.op = "getPredictedNewValue"
    /\ ret' = getPredictedNewValue(call.diff, call.resource, call.fullJson)
    /\ pc' = "returned"
    /\ UNCHANGED call
    /\ IdleUnchanged

NextPredict == CallGetPredictedNewValue

SpecPredict == InitPredict /\ [][NextPredict]_vars

\* lookups in the plan document

RendersTo(text) ==
    Obj([template |-> StrOf(text), vars |-> OrderedObj(<<>>, <<>>)])

\* most entries of a resource list handed to a lookup
MaxHeld == 2

\* resource lists of the root module of planned_values: the template under
\* its relative and under its fully qualified address, and another resource
RootPlannedLists ==
    SeqsUpTo({OtherPlanned,
              Planned(<<"data", "template_file", "t">>, RendersTo(<<"x">>)),
              Planned(<<"module", "m", "data", "template_file", "t">>, RendersTo(<<"y">>))},
             MaxHeld)

\* the child modules of planned_values: none at all, or the module n and
\* perhaps the module m, which holds the template t, another one, or nothing
ChildModuleLists ==
    {<<>>}
    \cup
    {<<Obj([address |-> Addr(<<"module", "n">>), resources |-> Arr(<<>>)]),
       Obj([address |-> Addr(<<"module", "m">>), resources |-> Arr(rs)])>> :
        rs \in {<<>>,
                <<Planned(<<"module", "m", "data", "template_file", "t">>, RendersTo(<<"z">>))>>,
                <<Planned(<<"module", "m", "data", "template_file", "u">>, RendersTo(<<"z">>))>>}}

PlannedLookupCalls ==
    {[op |-> "getPlannedValuesModuleResource",
      relativeAddress |-> Addr(<<"data", "template_file", name>>),
      moduleName |-> Str(module),
      fullJson |->
        Obj([planned_values |->
              Obj([root_module |-> MkObj([resources |-> Arr(rs),
                                          child_modules |->
                                            IF children THEN Arr(cs)
                                            ELSE Absent])])])] :
        name \in {"t", "u"}, module \in {"root_module", "m", "k"},
        rs \in RootPlannedLists, cs \in ChildModuleLists, children \in BOOLEAN}

\* declaration lists of a module of the configuration
DeclarationLists ==
    SeqsUpTo({OtherDeclaration,
              Declaration(<<"aws_iam_role_policy", "p">>, EmptyObj),
              Declaration(<<"aws_iam_role_policy", "p">>,
                          Obj([policy |-> Obj([references |-> Arr(<<TemplateAddress>>)])]))},
             MaxHeld)

\* addresses of resource changes: in the root module, in the module m, in
\* the module k that no module call declares, in the module m called from
\* the module a, and of one token
ChangeAddresses ==
    {Addr(<<"p">>),
     Addr(<<"aws_iam_role_policy", "p">>),
     Addr(<<"aws_iam_role_policy", "q">>),
     Addr(<<"module", "m", "aws_iam_role_policy", "p">>),
     Addr(<<"module", "m", "aws_iam_role_policy", "q">>),
     Addr(<<"module", "k", "aws_iam_role_policy", "p">>),
     Addr(<<"module", "a", "module", "m", "aws_iam_role_policy", "p">>)}

ConfigLookupCalls ==
    {[op |-> "getConfigResourceWrapper",
      fullAddress |-> a,
      fullJson |->
        Obj([configuration |->
              Obj([root_module |->
                    Obj([resources |-> Arr(rs),
                         module_calls |->
                           Obj([m |-> Obj([module |-> Obj([resources |-> Arr(ms)])])])])])])] :
        a \in ChangeAddresses, rs \in DeclarationLists, ms \in DeclarationLists}

InitLookup ==
    /\ pc = "call"
    /\ call \in PlannedLookupCalls \cup ConfigLookupCalls
    /\ ret = NoRet
    /\ Idle

CallGetPlannedValuesModuleResource ==
    /\ pc = "call"
    /\ call.op = "getPlannedValuesModuleResource"
    /\ ret' = getPlannedValuesModuleResource(call.relativeAddress, call.moduleName,
                                             call.fullJson)
    /\ pc' = "returned"
    /\ UNCHANGED call
    /\ IdleUnchanged

CallGetConfigResourceWrapper ==
    /\ pc = "call"
    /\ call.op = "getConfigResourceWrapper"
    /\ ret' = getConfigResourceWrapper(call.fullAddress, call.fullJson)
    /\ pc' = "returned"
    /\ UNCHANGED call
    /\ IdleUnchanged

NextLookup ==
    \/ CallGetPlannedValuesModuleResource
    \/ CallGetConfigResourceWrapper

SpecLookup == InitLookup /\ [][NextLookup]_vars

-----------------------------------------------------------------------------
(* process: plans and the run                                              *)

\* most resource changes of a plan
MaxResources == 2

Change(actions, before, after, afterUnknown) ==
    [actions |-> actions, before |-> before, after |-> after,
     after_unknown |-> afterUnknown]

Resource(tokens, mode, type, name, change) ==
    [address |-> Addr(tokens), mode |-> mode, type |-> type, name |-> name,
     change |-> change]

\* old policy documents: "{}", "{ }", "[]" and a text that is no JSON
OldTexts == {<<"{", "}">>, <<"{", " ", "}">>, <<"[", "]">>, <<"x">>}

PolicyChange(actions, old) ==
    Change(actions, Obj([name |-> Str("n"), policy |-> StrOf(old)]),
           Obj([name |-> Str("n")]), Obj([policy |-> Bool(TRUE)]))

ResourceCatalogue ==
    \* role policies whose policy is known after apply, in the root module
    {Resource(<<"aws_iam_role_policy", "p">>, "managed", "aws_iam_role_policy", "p",
              PolicyChange(<<"update">>, old)) : old \in OldTexts}
    \cup
    { \* the same in the module m
      Resource(<<"module", "m", "aws_iam_role_policy", "p">>, "managed",
               "aws_iam_role_policy", "p", PolicyChange(<<"update">>, <<"{", "}">>)),
      \* replaced: deleted, then created
      Resource(<<"aws_iam_role_policy", "p">>, "managed", "aws_iam_role_policy", "p",
               PolicyChange(<<"delete", "create">>, <<"{", "}">>)),
      \* a state machine whose id and definition are known after apply
      Resource(<<"aws_sfn_state_machine", "p">>, "managed", "aws_sfn_state_machine", "p",
               Change(<<"update">>,
                      Obj([id |-> StrOf(<<"{", "}">>), definition |-> StrOf(<<"{", " ", "}">>)]),
                      Obj([name |-> Str("n")]),
                      Obj([id |-> Bool(TRUE), definition |-> Bool(TRUE)]))),
      \* a function being created
      Resource(<<"aws_lambda_function", "f">>, "managed", "aws_lambda_function", "f",
               Change(<<"create">>, Null,
                      Obj([environment |-> Arr(<<Obj([x |-> Str("a")])>>),
                           name |-> Str("n"), source_code_hash |-> Str("h")]),
                      Obj([environment |-> Arr(<<EmptyObj>>), id |-> Bool(TRUE),
                           last_modified |-> Bool(TRUE)]))),
      \* a function whose marker does not fit its value
      Resource(<<"aws_lambda_function", "g">>, "managed", "aws_lambda_function", "g",
               Change(<<"update">>, Obj([environment |-> Str("a")]),
                      Obj([environment |-> Str("b")]),
                      Obj([environment |-> Arr(<<Bool(TRUE)>>)]))),
      \* deleted
      Resource(<<"aws_iam_role_policy", "p">>, "managed", "aws_iam_role_policy", "p",
               Change(<<"delete">>, Obj([policy |-> StrOf(<<"{", "}">>)]), Null, EmptyObj)),
      \* a data source that is read
      Resource(<<"data", "template_file", "t">>, "data", "template_file", "t",
               Change(<<"read">>, Null, Obj([template |-> StrOf(<<"x">>)]),
                      Obj([id |-> Bool(TRUE), rendered |-> Bool(TRUE)]))),
      \* a data source with another action
      Resource(<<"data", "template_file", "t">>, "data", "template_file", "t",
               Change(<<"create">>, Null, Obj([template |-> StrOf(<<"x">>)]),
                      Obj([id |-> Bool(TRUE), rendered |-> Bool(TRUE)]))),
      \* nothing to do
      Resource(<<"aws_lambda_function", "f">>, "managed", "aws_lambda_function", "f",
               Change(<<"no-op">>, Obj([name |-> Str("n")]), Obj([name |-> Str("n")]),
                      EmptyObj)),
      \* an attribute that goes away, the new map being null
      Resource(<<"aws_iam_role", "r">>, "managed", "aws_iam_role", "r",
               Change(<<"update">>, Obj([name |-> Str("foo")]), Null, EmptyObj)),
      \* an action of no known kind, the new map missing
      Resource(<<"aws_iam_role", "r">>, "managed", "aws_iam_role", "r",
               Change(<<"forget">>, Obj([name |-> Str("foo")]), Undefined, EmptyObj))}

\* the declarations of the eligible resources, each referencing refs
PlanDeclarations(refs) ==
    <<Declaration(<<"aws_iam_role_policy", "p">>,
                  Obj([policy |-> Obj([references |-> Arr(refs)])])),
      Declaration(<<"aws_sfn_state_machine", "p">>,
                  Obj([definition |-> Obj([references |-> Arr(refs)])]))>>

PlanConfiguration(declared, refs) ==
    LET resources == IF declared = "yes"
                     THEN Arr(<<OtherDeclaration>> \o PlanDeclarations(refs))
                     ELSE Arr(<<OtherDeclaration>>)
    IN Obj([root_module |->
             MkObj([resources |-> IF declared = "nocollection" THEN Absent
                                  ELSE resources,
                    module_calls |->
                      IF declared = "nocollection" THEN EmptyObj
                      ELSE Obj([m |-> Obj([module |-> Obj([resources |-> resources])])])])])

\* the template_file resource held by the root module and by the child
\* module m, or by neither
PlanPlannedValues(held, values) ==
    Obj([root_module |->
          Obj([resources |->
                 IF held
                 THEN Arr(<<OtherPlanned, Planned(<<"data", "template_file", "t">>, values)>>)
                 ELSE Arr(<<OtherPlanned>>),
               child_modules |->
                 Arr(<<Obj([address |-> Addr(<<"module", "m">>),
                            resources |->
                              IF held
                              THEN Arr(<<Planned(<<"module", "m", "data",
                                                   "template_file", "t">>, values)>>)
                              ELSE Arr(<<>>)])>>)])])

\* configuration and planned values of a plan: a template that renders to
\* "{}", to a text that is no JSON; a template that is not planned; a
\* declaration that is not there; a collection that is not there; a
\* declaration with two references
PlanSettings ==
    {[configuration |-> PlanConfiguration("yes", <<TemplateAddress>>),
      planned_values |-> PlanPlannedValues(TRUE, v)] :
        v \in {MkObj([template |-> StrOf(placeholder("a")),
                      vars |-> OrderedObj(<<"a">>, [a |-> StrOf(<<"{", "}">>)])]),
               RendersTo(<<"x">>)}}
    \cup
    {[configuration |-> PlanConfiguration("yes", <<TemplateAddress>>),
      planned_values |-> PlanPlannedValues(FALSE, EmptyObj)],
     [configuration |-> PlanConfiguration("no", <<>>),
      planned_values |-> PlanPlannedValues(TRUE, RendersTo(<<"x">>))],
     [configuration |-> PlanConfiguration("nocollection", <<>>),
      planned_values |-> PlanPlannedValues(TRUE, RendersTo(<<"x">>))],
     [configuration |-> PlanConfiguration("yes", <<TemplateAddress, RoleAddress>>),
      planned_values |-> PlanPlannedValues(TRUE, RendersTo(<<"x">>))]}

\* the documents a plan file parses to; Undefined: the file is missing or
\* is no JSON
Plans ==
    {MkObj([resource_changes |-> Arr(rs), configuration |-> st.configuration,
            planned_values |-> st.planned_values]) :
        rs \in SeqsUpTo(ResourceCatalogue, MaxResources), st \in PlanSettings}
    \cup
    {MkObj([resource_changes |-> Absent, configuration |-> st.configuration,
            planned_values |-> st.planned_values]) : st \in PlanSettings}
    \cup {Undefined}

ZeroCount == [k \in Kinds |-> 0]

Init ==
    /\ pc = "start"
    /\ json \in Plans
    /\ idx = 0
    /\ changeCount = ZeroCount
    /\ changeInfo = Null
    /\ diffs = <<>>
    /\ todo = <<>>
    /\ out = <<>>
    /\ invoked = {}
    /\ call = NoCall
    /\ ret = NoRet

resources == json.v.resource_changes.v

resource == resources[idx]

\* lines 211-214: an error raised anywhere in the pass ends it
Abort ==
    /\ out' = out \o ErrorLines
    /\ pc' = "done"

\* lines 46-58, 206-208
ReadPlan ==
    /\ pc = "start"
    /\ IF json = Undefined
       THEN Abort /\ UNCHANGED idx
       ELSE IF ~IsArray(Get(json, "resource_changes"))
       THEN out' = <<NoChangesLine>> /\ pc' = "done" /\ UNCHANGED idx
       ELSE out' = <<BlankLine>> /\ pc' = "loop" /\ idx' = 1
    /\ UNCHANGED <<json, changeCount, changeInfo, diffs, todo, invoked, call, ret>>

\* lines 64-92: classify the resource and write its header
StartResource ==
    /\ pc = "loop"
    /\ idx <= Len(resources)
    /\ LET got == getResourceChangeInfo(resource.change.actions, changeCount)
       IN /\ changeCount' = got.changeCount
          /\ changeInfo' = got.info
          /\ IF got.info = Null
             THEN /\ idx' = idx + 1
                  /\ UNCHANGED <<pc, out>>
             ELSE IF skipsDetails(got.info.v.changes)
             THEN /\ out' = out \o <<HeaderLine(idx, got.info.v.symbols, resource),
                                     CloseLine(idx)>>
                  /\ idx' = idx + 1
                  /\ UNCHANGED pc
             ELSE /\ out' = Append(out, HeaderLine(idx, got.info.v.symbols, resource))
                  /\ pc' = "diffs"
                  /\ UNCHANGED idx
    /\ UNCHANGED <<json, diffs, todo, invoked, call, ret>>

\* lines 97-98: getAttributeDiffs, which may take id and rendered out of the
\* resource's marker map and may write a diagnostic for a key
BuildDiffs ==
    /\ pc = "diffs"
    /\ LET change == resource.change
           got == getAttributeDiffs(change.after, change.before,
                                    change.after_unknown, resource)
           keys == diffKeys(change.after, change.before, got.afterState)
       IN /\ invoked' = invoked \cup {<<"getAttributeDiffs", idx>>}
          /\ json' = [json EXCEPT !.v.resource_changes.v[idx].change.after_unknown =
                                     got.afterState]
          /\ IF got.threw
             THEN Abort /\ UNCHANGED <<diffs, todo>>
             ELSE /\ diffs' = got.diffs
                  /\ todo' = keys
                  /\ out' = out \o [n \in 1..Len(SelectSeq(keys, LAMBDA k : k \in got.unexpected)) |->
                                      UnexpectedConditionLine(idx,
                                          SelectSeq(keys, LAMBDA k : k \in got.unexpected)[n])]
                  /\ pc' = "attrs"
    /\ UNCHANGED <<idx, changeCount, changeInfo, call, ret>>

\* lines 99-195: the line of the next attribute
ReportAttribute ==
    /\ pc = "attrs"
    /\ todo # <<>>
    /\ LET attribute == Head(todo)
           diff == diffs[attribute]
           marker == lineMarker(diff)
           predicted == getPredictedNewValue(diff, resource, json)
           compared == comparePredicted(diff, predicted.value)
       IN IF \/ shouldSkipDiffKnownAfter(resource, diff, attribute)
             \/ shouldSkipAlways(resource, attribute)
             \/ DEEPEQUAL(diff.oldValue, diff.newValue)
          THEN /\ todo' = Tail(todo)
               /\ UNCHANGED <<pc, out, invoked>>
          ELSE IF diff.oldValue = Null
          THEN /\ out' = Append(out, ValuesLine(idx, marker, attribute, diff))
               /\ todo' = Tail(todo)
               /\ UNCHANGED <<pc, invoked>>
          ELSE /\ invoked' = invoked \cup {<<"getPredictedNewValue", idx>>}
               /\ IF predicted.threw
                  THEN Abort /\ UNCHANGED todo
                  ELSE /\ todo' = Tail(todo)
                       /\ UNCHANGED pc
                       /\ IF diff.newValue = KNOWN_AFTER_APPLY /\ predicted.value # Null
                          THEN IF compared = "same"
                               THEN out' = Append(out, NoChangeLine(idx, marker, attribute))
                               ELSE IF compared = "error"
                               THEN out' = out \o <<CompareErrorLine(idx),
                                                    ValuesLine(idx, marker, attribute, diff)>>
                               ELSE out' = Append(out, ValuesLine(idx, marker, attribute, diff))
                          ELSE out' = Append(out, ValuesLine(idx, marker, attribute, diff))
    /\ UNCHANGED <<json, idx, changeCount, changeInfo, diffs, call, ret>>

\* line 196: the attributes are done
CloseResource ==
    /\ pc = "attrs"
    /\ todo = <<>>
    /\ out' = Append(out, CloseLine(idx))
    /\ idx' = idx + 1
    /\ pc' = "loop"
    /\ UNCHANGED <<json, changeCount, changeInfo, diffs, todo, invoked, call, ret>>

\* lines 199-204: the summary
Summary ==
    /\ pc = "loop"
    /\ idx > Len(resources)
    /\ out' = out \o <<SummaryLine(changeCount), BlankLine>>
    /\ pc' = "done"
    /\ UNCHANGED <<json, idx, changeCount, changeInfo, diffs, todo, invoked, call, ret>>

Next ==
    \/ ReadPlan
    \/ StartResource
    \/ BuildDiffs
    \/ ReportAttribute
    \/ CloseResource
    \/ Summary

Spec == Init /\ [][Next]_vars

-----------------------------------------------------------------------------
(* Claims about getAttributeDiffs (under SpecDiff)                         *)

DiffReturned ==
    /\ pc = "returned"
    /\ call.op = "getAttributeDiffs"
    /\ ~ret.threw

\* the marker map as processed: without id and rendered for a template_file
\* data source
ProcessedMarkerKeys ==
    IF call.resource = TemplateResource
    THEN DOMAIN call.afterState.v \ {"id", "rendered"}
    ELSE DOMAIN call.afterState.v

InputKeys(state) == IF state.t = "object" THEN DOMAIN state.v ELSE {}

\* C1: the keys of the returned diff object are exactly the union of the keys
\* of the old map, the new map and the marker map as processed, and every
\* key's record has an oldValue and a newValue, whatever the marker (also
\* the marker false)
C1_DiffKeysAreUnion ==
    DiffReturned =>
        /\ DOMAIN ret.diffs =
             InputKeys(call.oldState) \cup InputKeys(call.newState)
               \cup ProcessedMarkerKeys
        /\ \A k \in DOMAIN ret.diffs : DOMAIN ret.diffs[k] = {"oldValue", "newValue"}

\* a key held by the marker map alone, with marker false, beside a key of
\* the new map, has its record
C1_Witness ==
    /\ DiffReturned
    /\ call.newState.t = "object"
    /\ "environment" \in DOMAIN call.newState.v
    /\ "id" \notin InputKeys(call.oldState) \cup InputKeys(call.newState)
    /\ "id" \in DOMAIN call.afterState.v
    /\ call.afterState.v["id"] = Bool(FALSE)
    /\ DOMAIN ret.diffs = {"environment", "id"}
    /\ ret.diffs["id"] = [oldValue |-> Null, newValue |-> Null]

\* the raw new value of key k, Absent when there is none
RawNew(k) ==
    IF call.newState.t = "object" /\ k \in DOMAIN call.newState.v
    THEN call.newState.v[k] ELSE Absent

\* the marker of key k in the marker map handed in, Absent when there is none
RawMarker(k) ==
    IF k \in DOMAIN call.afterState.v THEN call.afterState.v[k] ELSE Absent

\* the marker of key k as processed
Marker(k) == IF k \in ProcessedMarkerKeys THEN call.afterState.v[k] ELSE Absent

Collapsed(x) == IF x \in {Absent, Null, EmptyObj} THEN Null ELSE x

NoOpMarker(m) == m \in {Absent, Null, Bool(FALSE), EmptyObj, Arr(<<>>)}

C3_MarkerTrueGivesSentinel ==
    DiffReturned =>
        \A k \in DOMAIN call.afterState.v :
            RawMarker(k) = Bool(TRUE)
                => /\ k \in DOMAIN ret.diffs
                   /\ ret.diffs[k].newValue = KNOWN_AFTER_APPLY

\* C3 (amended): a marker true of the marker map as processed (id and
\* rendered of a template_file data source are dropped first) gives the
\* sentinel as newValue, whatever the new map holds for the key
C3_ProcessedMarkerTrueGivesSentinel ==
    DiffReturned =>
        \A k \in ProcessedMarkerKeys :
            Marker(k) = Bool(TRUE) => ret.diffs[k].newValue = KNOWN_AFTER_APPLY

\* marker true over a sequence the new map holds: the sequence is discarded
C3_Witness ==
    /\ DiffReturned
    /\ RawNew("environment").t = "array"
    /\ Len(RawNew("environment").v) = 2
    /\ Marker("environment") = Bool(TRUE)
    /\ ret.diffs["environment"].newValue = KNOWN_AFTER_APPLY

IsScalar(x) == x.t \in {"string", "number", "boolean"}

\* marker and new value of key k are both ordered sequences
BothSequences(k) ==
    /\ k \in DOMAIN ret.diffs
    /\ RawNew(k).t = "array"
    /\ Marker(k).t = "array"

\* r is the marker map m merged into the element n: every key of m is in r,
\* the scalar leaves of m win, and the keys of a map n that m lacks are kept
MarkerMergedInto(n, m, r) ==
    /\ r.t = "object"
    /\ DOMAIN m.v \subseteq DOMAIN r.v
    /\ \A key \in DOMAIN m.v : IsScalar(m.v[key]) => r.v[key] = m.v[key]
    /\ n.t = "object" =>
         /\ DOMAIN r.v = DOMAIN n.v \cup DOMAIN m.v
         /\ \A key \in DOMAIN n.v \ DOMAIN m.v : r.v[key] = n.v[key]
    /\ n.t # "object" => r = m

\* C4 as stated: the merged sequence has the longer length; a scalar marker
\* element replaces the new element outright, unless it is false and paired
\* with a non-null new element, which is kept; a map marker element is
\* deep-merged into the new element, the marker winning
C4_SequenceMerge ==
    DiffReturned =>
        \A k \in DOMAIN ret.diffs :
            BothSequences(k) =>
                LET n == RawNew(k).v
                    m == Marker(k).v
                    r == ret.diffs[k].newValue
                IN /\ r.t = "array"
                   /\ Len(r.v) = Max(Len(m), Len(n))
                   /\ \A j \in 1..Len(m) :
                        IF IsScalar(m[j])
                        THEN IF m[j] = Bool(FALSE) /\ j <= Len(n) /\ n[j] # Null
                             THEN r.v[j] = n[j]
                             ELSE r.v[j] = m[j]
                        ELSE MarkerMergedInto(IF j <= Len(n) THEN n[j] ELSE EmptyObj,
                                              m[j], r.v[j])

\* C4 (amended): as C4, where a new element missing at an index counts as an
\* empty map: a marker element false at an index past the end of the new
\* value yields an empty map there, not false
C4_SequenceMergeMissingIsEmpty ==
    DiffReturned =>
        \A k \in DOMAIN ret.diffs :
            BothSequences(k) =>
                LET n == RawNew(k).v
                    m == Marker(k).v
                    r == ret.diffs[k].newValue
                    elem(j) == IF j <= Len(n) THEN n[j] ELSE EmptyObj
                IN /\ r.t = "array"
                   /\ Len(r.v) = Max(Len(m), Len(n))
                   /\ \A j \in 1..Len(m) :
                        IF IsScalar(m[j])
                        THEN IF m[j] = Bool(FALSE) /\ elem(j) # Null
                             THEN r.v[j] = elem(j)
                             ELSE r.v[j] = m[j]
                        ELSE MarkerMergedInto(elem(j), m[j], r.v[j])

\* a marker longer than the new value: a map merged into a map, and false
\* past the end of the new value
C4_Witness ==
    /\ DiffReturned
    /\ BothSequences("environment")
    /\ RawNew("environment").v = <<Obj([x |-> Str("a"), y |-> Str("b")])>>
    /\ Marker("environment").v = <<Obj([x |-> Bool(TRUE)]), Bool(FALSE)>>
    /\ ret.diffs["environment"].newValue =
         Arr(<<Obj([x |-> Bool(TRUE), y |-> Str("b")]), EmptyObj>>)

\* the call has ended, with a diff object or with an error
DiffEnded == pc = "returned" /\ call.op = "getAttributeDiffs"

\* C14: the call yields a record for every key, and where the key has no
\* marker its newValue is the null-collapsed new value: null when the new
\* map is null or missing, lacks the key, or holds null or an empty map
C14_NewValueNullCollapsed ==
    DiffEnded =>
        /\ ~ret.threw
        /\ \A k \in DOMAIN ret.diffs :
              Marker(k) = Absent => ret.diffs[k].newValue = Collapsed(RawNew(k))

-----------------------------------------------------------------------------
(* Claims about getResourceChangeInfo (under SpecClassify)                 *)

ClassifyReturned == pc = "returned" /\ call.op = "getResourceChangeInfo"

\* the kind an action counts as
KindOf(action) ==
    IF action \in {"read", "create", "update", "delete"} THEN action ELSE "unknown"

MarkerOfKind ==
    [read |-> "<=", create |-> "+", update |-> "~", delete |-> "-", unknown |-> "?"]

Occurrences(actions, kind) ==
    Cardinality({n \in 1..Len(actions) : KindOf(actions[n]) = kind})

\* C9: ["no-op"] gives null and leaves the tally alone; any other action list
\* gives one symbol and one change kind per action, in order, and adds to
\* each kind's count the number of actions of that kind, an action that is
\* not read, create, update or delete counting as unknown
C9_ChangeInfoPerAction ==
    ClassifyReturned =>
        IF call.actions = <<"no-op">>
        THEN ret.info = Null /\ ret.changeCount = call.changeCount
        ELSE /\ ret.info # Null
             /\ Len(ret.info.v.symbols) = Len(call.actions)
             /\ Len(ret.info.v.changes) = Len(call.actions)
             /\ \A n \in 1..Len(call.actions) :
                  /\ ret.info.v.changes[n] = KindOf(call.actions[n])
                  /\ ret.info.v.symbols[n].marker = MarkerOfKind[KindOf(call.actions[n])]
             /\ \A kind \in Kinds :
                  ret.changeCount[kind] =
                    call.changeCount[kind] + Occurrences(call.actions, kind)

\* "no-op" beside an action of no known kind: two unknowns are tallied
C9_Witness ==
    /\ ClassifyReturned
    /\ call.actions = <<"no-op", "replace">>
    /\ call.changeCount["unknown"] = 1
    /\ ret.changeCount["unknown"] = 3
    /\ ret.info.v.changes = <<"unknown", "unknown">>

-----------------------------------------------------------------------------
(* Claims about getPredictedNewValue (under SpecPredict and SpecRender)    *)

PredictReturned == pc = "returned" /\ call.op = "getPredictedNewValue"

\* the declarations of the call's resource: those of the root module for an
\* address of two tokens, those of the module call m otherwise
DeclarationsOfResource ==
    LET tokens == call.resource.address.v
        root == call.fullJson.v.configuration.v.root_module.v
        held == IF Len(tokens) <= 2
                THEN IF "resources" \in DOMAIN root THEN root.resources.v ELSE <<>>
                ELSE IF "m" \in DOMAIN root.module_calls.v
                     THEN root.module_calls.v.m.v.module.v.resources.v
                     ELSE <<>>
    IN {held[n] : n \in {n \in DOMAIN held :
            held[n].v.address.v = <<call.resource.type, call.resource.name>>}}

\* the attribute the eligibility table names for a type
EligibleAttribute ==
    [aws_iam_role_policy |-> "policy", aws_sfn_state_machine |-> "definition"]

\* the upstream references the declaration d declares for attribute
ReferencesOf(d, attribute) ==
    IF /\ "expressions" \in DOMAIN d.v
       /\ attribute \in DOMAIN d.v.expressions.v
       /\ "references" \in DOMAIN d.v.expressions.v[attribute].v
    THEN d.v.expressions.v[attribute].v.references.v
    ELSE <<>>

NamesTemplate(reference) ==
    \E n \in 1..(Len(reference.v) - 2) :
        reference.v[n] = "data" /\ reference.v[n + 1] = "template_file"

CannotPredict == ret = [threw |-> FALSE, value |-> Null]

\* C6: the predictor returns null, raising nothing, for every resource of
\* another type than aws_iam_role_policy and aws_sfn_state_machine, and for
\* every eligible resource whose declaration references, for the eligible
\* attribute, no upstream resource, several, or one that is no
\* data.template_file address
C6_PredictorEligibilityClosed ==
    PredictReturned =>
        /\ call.resource.type \notin DOMAIN EligibleAttribute => CannotPredict
        /\ call.resource.type \in DOMAIN EligibleAttribute =>
             \A d \in DeclarationsOfResource :
                LET refs == ReferencesOf(d, EligibleAttribute[call.resource.type])
                IN (Len(refs) # 1 \/ ~NamesTemplate(refs[1])) => CannotPredict

\* an unknown policy whose declaration references a template and a role,
\* the template's values being in the plan
C6_Witness ==
    /\ PredictReturned
    /\ call.diff.newValue = KNOWN_AFTER_APPLY
    /\ call.resource.type = "aws_iam_role_policy"
    /\ \E d \in DeclarationsOfResource :
          ReferencesOf(d, "policy") = <<TemplateAddress, RoleAddress>>
    /\ CannotPredict

RenderReturned == pc = "returned" /\ call.op = "render"

\* every placeholder of a variable of the map replaced by the variable's
\* value in one pass over the text; what a value brings in is not read again
RECURSIVE SinglePass(_, _)

SinglePass(text, templateVars) ==
    IF Len(text) = 0 THEN <<>>
    ELSE IF /\ Len(text) >= 4
            /\ text[1] = "$" /\ text[2] = "{" /\ text[4] = "}"
            /\ text[3] \in DOMAIN templateVars.v
    THEN templateVars.v[text[3]].v
           \o SinglePass(SubSeq(text, 5, Len(text)), templateVars)
    ELSE <<text[1]>> \o SinglePass(Tail(text), templateVars)

\* C7: the rendered prediction is the single-pass simultaneous substitution
\* of the template body, whatever the order of the variables
C7_RenderIsSinglePass ==
    RenderReturned =>
        ret = StrOf(SinglePass(call.template.v, call.templateVars))

-----------------------------------------------------------------------------
(* Claims about process (under Spec)                                       *)

PlanRead == json # Undefined /\ "resource_changes" \in DOMAIN json.v

ActionsOf(r) == json.v.resource_changes.v[r].change.actions

\* the lines of out about resource r, in order
LinesOf(r) ==
    SelectSeq(out, LAMBDA l :
        l.line \in {"header", "close", "values", "predicting-no-change",
                    "compare-error", "unexpected-condition"} /\ l.of = r)

LineKinds(lines) == [n \in DOMAIN lines |-> lines[n].line]

HasSummary == \E n \in DOMAIN out : out[n].line = "summary"

\* every resource change holds a new map, or null for it
NewMapsPresent == \A r \in 1..Len(resources) : resources[r].change.after # Undefined

\* C5: a failure of the predictor's lookups (the template resource or the
\* declaration is not found, a collection is no sequence) does not end the
\* run: once the plan is read, a finished run has reported every resource
\* that is not a no-op and has written the summary
C5_ScopedFailureDoesNotAbort ==
    (pc = "done" /\ PlanRead /\ NewMapsPresent) =>
        /\ HasSummary
        /\ \A r \in 1..Len(resources) :
              ActionsOf(r) # <<"no-op">> => Len(LinesOf(r)) > 0

\* the resources classified so far
Classified ==
    IF ~PlanRead THEN 0
    ELSE IF pc = "loop" THEN idx - 1
    ELSE IF idx <= Len(resources) THEN idx ELSE Len(resources)

RECURSIVE OccurrencesUpTo(_, _)

\* how often kind occurs in the action lists of the resources 1..r, a
\* resource that is a no-op not being counted
OccurrencesUpTo(r, kind) ==
    IF r = 0 THEN 0
    ELSE OccurrencesUpTo(r - 1, kind)
           + IF ActionsOf(r) = <<"no-op">> THEN 0 ELSE Occurrences(ActionsOf(r), kind)

\* C10: a resource whose action list is ["delete"] or ["read"] gets its
\* header and its closing delimiter and nothing else, getAttributeDiffs and
\* getPredictedNewValue are not called for it, and the tally counts each
\* action once under its own kind (a ["delete"] adds one to delete alone)
C10_DeleteOrReadOnlyHeaderAndClose ==
    PlanRead =>
        /\ \A r \in 1..Len(resources) :
              ActionsOf(r) \in {<<"delete">>, <<"read">>} =>
                 /\ <<"getAttributeDiffs", r>> \notin invoked
                 /\ <<"getPredictedNewValue", r>> \notin invoked
                 /\ LineKinds(LinesOf(r)) =
                      IF r <= Classified THEN <<"header", "close">> ELSE <<>>
        /\ \A kind \in Kinds : changeCount[kind] = OccurrencesUpTo(Classified, kind)

\* a finished run over a deleted resource and a data source that is read
C10_Witness ==
    /\ pc = "done"
    /\ PlanRead
    /\ Len(resources) = 2
    /\ ActionsOf(1) = <<"delete">>
    /\ ActionsOf(2) = <<"read">>
    /\ resources[1].change.before # Null
    /\ LineKinds(out) = <<"blank", "header", "close", "header", "close", "summary", "blank">>
    /\ changeCount = [ZeroCount EXCEPT !["delete"] = 1, !["read"] = 1]
    /\ out[6].destroy = 1

\* the attribute lines of out: one per attribute that is reported
AttributeLines ==
    SelectSeq(out, LAMBDA l : l.line \in {"values", "predicting-no-change"})

\* the diff record the line l was written for
DiffOfLine(l) ==
    LET change == resources[l.of].change
    IN getAttributeDiffs(change.after, change.before, change.after_unknown,
                         resources[l.of]).diffs[l.attribute]

PredictionOfLine(l) == getPredictedNewValue(DiffOfLine(l), resources[l.of], json)

\* the texts are the same string, or both are JSON for the same data
SameStringOrData(a, b) ==
    \/ a = b
    \/ /\ ~JSONparse(a).threw
       /\ ~JSONparse(b).threw
       /\ JSONparse(a).value = JSONparse(b).value

\* C8: an attribute whose newValue is the sentinel, whose oldValue is not
\* null and for which a prediction was produced is reported as no actual
\* change exactly when the predicted value is the old value as a string or
\* both parse to deeply equal data
C8_NoChangeIffPredictedEqualsOld ==
    PlanRead =>
        \A n \in DOMAIN AttributeLines :
            LET l == AttributeLines[n]
                diff == DiffOfLine(l)
                predicted == PredictionOfLine(l)
            IN (/\ diff.newValue = KNOWN_AFTER_APPLY
                /\ diff.oldValue # Null
                /\ ~predicted.threw
                /\ predicted.value # Null)
               => (l.line = "predicting-no-change"
                     <=> SameStringOrData(diff.oldValue, predicted.value))

\* C11: no step of a run changes the plan document, so the before, after
\* and after_unknown maps of every resource change stay as they were read
C11_ResourceChangeNeverMutated == [][json' = json]_vars

-----------------------------------------------------------------------------
(* Claims about the lookups (under SpecLookup)                             *)

PlannedLookupReturned == pc = "returned" /\ call.op = "getPlannedValuesModuleResource"

RootPlanned == call.fullJson.v.planned_values.v.root_module.v.resources.v

ChildModules ==
    LET root == call.fullJson.v.planned_values.v.root_module.v
    IN IF "child_modules" \in DOMAIN root THEN root.child_modules.v ELSE <<>>

QualifiedAddress == Addr(<<"module", call.moduleName.v[1]>> \o call.relativeAddress.v)

\* the first child module addressed module.<name> holds the resource under
\* its fully qualified address
ChildHoldsResource ==
    \E n \in DOMAIN ChildModules :
        /\ ChildModules[n].v.address = Addr(<<"module", call.moduleName.v[1]>>)
        /\ \A k \in 1..(n - 1) :
              ChildModules[k].v.address # Addr(<<"module", call.moduleName.v[1]>>)
        /\ \E i \in DOMAIN ChildModules[n].v.resources.v :
              ChildModules[n].v.resources.v[i].v.address = QualifiedAddress

\* the first resource of the root module's list with the address, or null
RootMatch(address) ==
    LET hits == {i \in DOMAIN RootPlanned : RootPlanned[i].v.address = address}
    IN IF hits = {} THEN Null
       ELSE RootPlanned[CHOOSE i \in hits : \A k \in hits : i <= k]

\* C12: for a resource of a non-root module whose child module is not there
\* or does not hold it, the planned-value lookup returns the root module's
\* resource with the fully qualified address, or not-found, and does not fail
C12_FallsBackToRootModule ==
    (/\ PlannedLookupReturned
     /\ call.moduleName # Str("root_module")
     /\ ~ChildHoldsResource)
    => ret = Returned(RootMatch(QualifiedAddress))

ConfigLookupReturned == pc = "returned" /\ call.op = "getConfigResourceWrapper"

ConfigRoot == call.fullJson.v.configuration.v.root_module.v

AddressTokens == call.fullAddress.v

\* the module the address names: the root module for at most two tokens,
\* else the module call named by the third-from-last token
OwningModule ==
    IF Len(AddressTokens) <= 2 THEN "root_module"
    ELSE AddressTokens[Len(AddressTokens) - 2]

\* the declarations of that module; none when no module call has the name
OwningDeclarations ==
    IF Len(AddressTokens) <= 2 THEN ConfigRoot.resources.v
    ELSE IF OwningModule \in DOMAIN ConfigRoot.module_calls.v
    THEN ConfigRoot.module_calls.v[OwningModule].v.module.v.resources.v
    ELSE <<>>

\* the address looked up there: the whole address, or its last two tokens
DeclaredAddress ==
    IF Len(AddressTokens) <= 2 THEN call.fullAddress
    ELSE Addr(<<AddressTokens[Len(AddressTokens) - 1], AddressTokens[Len(AddressTokens)]>>)

DeclarationHits ==
    {i \in DOMAIN OwningDeclarations : OwningDeclarations[i].v.address = DeclaredAddress}

\* C13: getConfigResourceWrapper returns the first matching declaration of
\* the owning module together with that module's name, and fails when no
\* declaration matches
C13_WrapperOrReferenceNotFound ==
    ConfigLookupReturned =>
        IF DeclarationHits = {} THEN ret.threw
        ELSE ret = Returned(Wrapper(
                      OwningDeclarations[CHOOSE i \in DeclarationHits :
                                            \A k \in DeclarationHits : i <= k],
                      Str(OwningModule)))

\* the one attribute the predictor's table names for a resource type
TableAttribute(type) ==
    IF type = "aws_iam_role_policy" THEN "policy"
    ELSE IF type = "aws_sfn_state_machine" THEN "definition"
    ELSE "none"

\* C15: an attribute is reported as no actual change on the basis of the
\* rendered template only if it is the attribute the table names for the
\* type of its resource
C15_OnlyTableAttributePredicted ==
    PlanRead =>
        \A n \in DOMAIN out :
            out[n].line = "predicting-no-change"
                => out[n].attribute = TableAttribute(resources[out[n].of].type)

====
